---- MODULE Spec2Model ----
(***************************************************************************)
(* A model of src/maze.py: the Maze class (a grid of cells, a start and an *)
(* exit position) and its backtracking search find_path(), one loop        *)
(* iteration per step.                                                     *)
(*                                                                         *)
(* A position _CellPosition(row, col) is the pair <<row, col>>; Python's   *)
(* None is the empty tuple for a position and the string "None" for a      *)
(* cell.  The stack is a sequence whose last element is the top.           *)
(*                                                                         *)
(* Caller's protocol (build_maze, lines 139-163, and the script at lines   *)
(* 172-174): the maze is configured with set_wall/set_start/set_exit while *)
(* the grid holds no search tokens; find_path() and reset() may be called  *)
(* at any time, find_path() also on a grid a previous search has marked.   *)
(***************************************************************************)
EXTENDS Integers, Sequences, FiniteSets, TLC

\* Bounds of the model: the largest grid the constructor is given.
MaxRows == 2
MaxCols == 2

\* Maze.MAZE_WALL, Maze.PATH_TOKEN, Maze.TRIED_TOKEN and the None of an open cell.
MAZE_WALL == "*"
PATH_TOKEN == "x"
TRIED_TOKEN == "o"
EMPTY == "None"

\* The None of an unset _start_cell / _exit_cell.
None == <<>>

VARIABLES
    num_rows,     \* Array2D's row count, fixed by Maze(num_rows, num_cols)
    num_cols,     \* Array2D's column count
    maze_cells,   \* self._maze_cells: position -> cell value
    start_cell,   \* self._start_cell: a position or None
    exit_cell,    \* self._exit_cell: a position or None
    stack,        \* find_path's local stack (kept after the return for inspection)
    pc,           \* "idle": between calls; "search": inside find_path's loop;
                  \* "returned": find_path has just returned True or False
    op,           \* the kind of the last call: "config", "find_path", "reset"
                  \* or "str"
    result,       \* outcome of the last call: "None", "True", "False",
                  \* "AssertionError" or "AttributeError"; the text (a
                  \* sequence of characters) after __str__
    entry_cells,  \* history: the grid when the running/last find_path or reset was called
    pushes,       \* history: position -> number of stack.push of it in this find_path
    pops,         \* history: position -> number of stack.pop of it in this find_path
    writes        \* history: loop iterations of this find_path that wrote a cell

vars == <<num_rows, num_cols, maze_cells, start_cell, exit_cell, stack, pc, op,
          result, entry_cells, pushes, pops, writes>>

\* The index pairs Array2D accepts.
Pos == (0 .. num_rows - 1) \X (0 .. num_cols - 1)

\* The range test of the three setters' assert.
InRange(row, col) == row >= 0 /\ row < num_rows /\ col >= 0 /\ col < num_cols

\* Positions the setters are called with: every position of the grid, one
\* beyond each edge of it and one beyond a corner.
Args ==
    Pos \cup {<<-1, 0>>, <<num_rows, 0>>, <<0, -1>>, <<0, num_cols>>, <<-1, num_cols>>}

NoCounts == [p \in Pos |-> 0]

\* Maze.__init__: all cells open, start and exit unset.
Init ==
    /\ num_rows \in 1 .. MaxRows
    /\ num_cols \in 1 .. MaxCols
    /\ maze_cells = [p \in Pos |-> EMPTY]
    /\ start_cell = None
    /\ exit_cell = None
    /\ stack = <<>>
    /\ pc = "idle"
    /\ op = "config"
    /\ result = "None"
    /\ entry_cells = maze_cells
    /\ pushes = NoCounts
    /\ pops = NoCounts
    /\ writes = 0

\* What a configuration call leaves in the history variables.
ConfigDone(cells) ==
    /\ stack' = <<>>
    /\ pc' = "idle"
    /\ op' = "config"
    /\ entry_cells' = cells
    /\ pushes' = NoCounts
    /\ pops' = NoCounts
    /\ writes' = 0

\* Maze.set_wall
set_wall(row, col) ==
    /\ pc = "idle"
    /\ IF InRange(row, col)
         THEN /\ maze_cells' = [maze_cells EXCEPT ![<<row, col>>] = MAZE_WALL]
              /\ result' = "None"
         ELSE /\ maze_cells' = maze_cells
              /\ result' = "AssertionError"
    /\ ConfigDone(maze_cells')
    /\ UNCHANGED <<num_rows, num_cols, start_cell, exit_cell>>

\* set_start without its assert: the position is stored whatever it is.
set_start_unchecked(row, col) ==
    /\ pc = "idle"
    /\ start_cell' = <<row, col>>
    /\ result' = "None"
    /\ ConfigDone(maze_cells)
    /\ UNCHANGED <<num_rows, num_cols, maze_cells, exit_cell>>

\* Maze.set_start
set_start(row, col) ==
    /\ pc = "idle"
    /\ IF InRange(row, col)
         THEN /\ start_cell' = <<row, col>>
              /\ result' = "None"
         ELSE /\ start_cell' = start_cell
              /\ result' = "AssertionError"
    /\ ConfigDone(maze_cells)
    /\ UNCHANGED <<num_rows, num_cols, maze_cells, exit_cell>>

\* Maze.set_exit
set_exit(row, col) ==
    /\ pc = "idle"
    /\ IF InRange(row, col)
         THEN /\ exit_cell' = <<row, col>>
              /\ result' = "None"
         ELSE /\ exit_cell' = exit_cell
              /\ result' = "AssertionError"
    /\ ConfigDone(maze_cells)
    /\ UNCHANGED <<num_rows, num_cols, maze_cells, start_cell>>

\* Maze._valid_move, on a given grid
valid_move_in(cells, row, col) ==
    /\ row >= 0
    /\ row < num_rows
    /\ col >= 0
    /\ col < num_cols
    /\ cells[<<row, col>>] = EMPTY

\* Maze._valid_move, on self._maze_cells
valid_move(row, col) == valid_move_in(maze_cells, row, col)

\* Maze._exit_found (called with exit_cell set)
exit_found(row, col) == row = exit_cell[1] /\ col = exit_cell[2]

\* A pop that drops no token: the cell keeps its "path" token.
mark_tried_forgotten(cells, row, col) == cells

\* A pop that drops a "path" token where the "tried" token belongs.
mark_tried_as_path(cells, row, col) == [cells EXCEPT ![<<row, col>>] = PATH_TOKEN]

\* Maze._mark_tried
mark_tried(cells, row, col) == [cells EXCEPT ![<<row, col>>] = TRIED_TOKEN]

\* A move that pushes the neighbour without dropping the "path" token.
mark_path_forgotten(cells, row, col) == cells

\* Maze._mark_path
mark_path(cells, row, col) == [cells EXCEPT ![<<row, col>>] = PATH_TOKEN]

\* The chain with the branches in the order up, right, down, left.
next_move_right_first(row, col) ==
    IF valid_move(row - 1, col) THEN <<row - 1, col>>
    ELSE IF valid_move(row, col + 1) THEN <<row, col + 1>>
    ELSE IF valid_move(row + 1, col) THEN <<row + 1, col>>
    ELSE IF valid_move(row, col - 1) THEN <<row, col - 1>>
    ELSE None

\* The chain with a slip in the last branch: the cell right of the top is
\* tested, the cell below that one is pushed.
next_move_wrong_push(row, col) ==
    IF valid_move(row - 1, col) THEN <<row - 1, col>>
    ELSE IF valid_move(row + 1, col) THEN <<row + 1, col>>
    ELSE IF valid_move(row, col - 1) THEN <<row, col - 1>>
    ELSE IF valid_move(row, col + 1) THEN <<row + 1, col + 1>>
    ELSE None

\* A search that never tries the last branch of the chain (a direction left out).
next_move_no_right(row, col) ==
    IF valid_move(row - 1, col) THEN <<row - 1, col>>
    ELSE IF valid_move(row + 1, col) THEN <<row + 1, col>>
    ELSE IF valid_move(row, col - 1) THEN <<row, col - 1>>
    ELSE None

\* The if/elif chain of find_path's loop body on a given grid: the neighbour
\* moved to, or None.
next_move_in(cells, row, col) ==
    IF valid_move_in(cells, row - 1, col) THEN <<row - 1, col>>
    ELSE IF valid_move_in(cells, row + 1, col) THEN <<row + 1, col>>
    ELSE IF valid_move_in(cells, row, col - 1) THEN <<row, col - 1>>
    ELSE IF valid_move_in(cells, row, col + 1) THEN <<row, col + 1>>
    ELSE None

\* The if/elif chain of find_path's loop body: the neighbour moved to, or None.
next_move(row, col) == next_move_in(maze_cells, row, col)

Top == stack[Len(stack)]

\* find_path is entered: stack = Stack(); stack.push(self._start_cell).
find_path_call ==
    /\ pc \in {"idle", "returned"}
    /\ stack' = <<start_cell>>
    /\ pc' = "search"
    /\ op' = "find_path"
    /\ result' = "None"
    /\ entry_cells' = maze_cells
    /\ pushes' = [p \in Pos |-> IF p = start_cell THEN 1 ELSE 0]
    /\ pops' = NoCounts
    /\ writes' = 0
    /\ UNCHANGED <<num_rows, num_cols, maze_cells, start_cell, exit_cell>>

\* A search that takes a missing start or exit for "no path" and returns False.
find_path_raise_as_no_path ==
    /\ pc = "search"
    /\ Len(stack) > 0
    /\ Top = None \/ exit_cell = None
    /\ pc' = "returned"
    /\ result' = "False"
    /\ stack' = <<>>
    /\ UNCHANGED <<num_rows, num_cols, maze_cells, start_cell, exit_cell, op,
                   entry_cells, pushes, pops, writes>>

\* An iteration that raises: current_cell.row with current_cell None, or
\* self._exit_cell.row with the exit unset.  Nothing has been written.
find_path_raise ==
    /\ pc = "search"
    /\ Len(stack) > 0
    /\ Top = None \/ exit_cell = None
    /\ pc' = "idle"
    /\ result' = "AttributeError"
    /\ stack' = <<>>
    /\ UNCHANGED <<num_rows, num_cols, maze_cells, start_cell, exit_cell, op,
                   entry_cells, pushes, pops, writes>>

\* An iteration whose stack top is the exit: return True.
find_path_exit ==
    /\ pc = "search"
    /\ Len(stack) > 0
    /\ Top # None /\ exit_cell # None
    /\ exit_found(Top[1], Top[2])
    /\ pc' = "returned"
    /\ result' = "True"
    /\ UNCHANGED <<num_rows, num_cols, maze_cells, start_cell, exit_cell, stack, op,
                   entry_cells, pushes, pops, writes>>

\* An iteration that moves: mark the neighbour and push it.
find_path_push ==
    /\ pc = "search"
    /\ Len(stack) > 0
    /\ Top # None /\ exit_cell # None
    /\ ~exit_found(Top[1], Top[2])
    /\ next_move(Top[1], Top[2]) # None
    /\ LET n == next_move(Top[1], Top[2]) IN
         /\ maze_cells' = mark_path(maze_cells, n[1], n[2])
         /\ stack' = Append(stack, n)
         /\ pushes' = [pushes EXCEPT ![n] = @ + 1]
    /\ writes' = writes + 1
    /\ UNCHANGED <<num_rows, num_cols, start_cell, exit_cell, pc, op, result,
                   entry_cells, pops>>

\* An iteration with no valid move: pop the top and mark it tried; when that
\* empties the stack the loop ends and find_path returns False.
find_path_pop ==
    /\ pc = "search"
    /\ Len(stack) > 0
    /\ Top # None /\ exit_cell # None
    /\ ~exit_found(Top[1], Top[2])
    /\ next_move(Top[1], Top[2]) = None
    /\ stack' = SubSeq(stack, 1, Len(stack) - 1)
    /\ maze_cells' = mark_tried(maze_cells, Top[1], Top[2])
    /\ pops' = [pops EXCEPT ![Top] = @ + 1]
    /\ writes' = writes + 1
    /\ IF Len(stack) = 1
         THEN pc' = "returned" /\ result' = "False"
         ELSE pc' = pc /\ result' = result
    /\ UNCHANGED <<num_rows, num_cols, start_cell, exit_cell, op, entry_cells, pushes>>

\* A reset that clears the "path" tokens and leaves the "tried" tokens.
reset_cell_path_only(cell) == IF cell = PATH_TOKEN THEN EMPTY ELSE cell

\* A reset that takes back one stage of the marking per call: "path" becomes
\* "tried", anything else is cleared.
reset_cell_one_stage(cell) ==
    IF cell = PATH_TOKEN THEN TRIED_TOKEN ELSE EMPTY

\* The cell value reset() stores at a position.
reset_cell(cell) ==
    IF cell = PATH_TOKEN \/ cell # EMPTY \/ cell = TRIED_TOKEN THEN EMPTY ELSE cell

\* The grid reset() leaves: its two loops over every row and column.
reset_grid(cells) == [p \in Pos |-> reset_cell(cells[p])]

\* Maze.reset
reset ==
    /\ pc \in {"idle", "returned"}
    /\ maze_cells' = reset_grid(maze_cells)
    /\ pc' = "idle"
    /\ op' = "reset"
    /\ result' = "None"
    /\ stack' = <<>>
    /\ entry_cells' = maze_cells
    /\ pushes' = NoCounts
    /\ pops' = NoCounts
    /\ writes' = 0
    /\ UNCHANGED <<num_rows, num_cols, start_cell, exit_cell>>

Next ==
    \/ \E a \in Args : set_wall(a[1], a[2])
    \/ \E a \in Args : set_start(a[1], a[2])
    \/ \E a \in Args : set_exit(a[1], a[2])
    \/ find_path_call
    \/ find_path_raise
    \/ find_path_exit
    \/ find_path_push
    \/ find_path_pop
    \/ reset

Spec == Init /\ [][Next]_vars

\* str.rstrip() without its effect: nothing is stripped.
rstrip_nothing(text) == text

\* str.rstrip(): the text without its trailing whitespace.
RECURSIVE rstrip(_)
rstrip(text) ==
    IF Len(text) > 0 /\ text[Len(text)] \in {" ", "\n", "\t"}
      THEN rstrip(SubSeq(text, 1, Len(text) - 1))
      ELSE text

\* The inner loop of __str__ from column col on: "_ " for an open cell, the
\* cell's character and a space otherwise.
RECURSIVE str_cols(_, _, _, _)
str_cols(cells, row, col, maze_str) ==
    IF col >= num_cols THEN maze_str
    ELSE LET cell == cells[<<row, col>>] IN
         str_cols(cells, row, col + 1,
                  IF cell = EMPTY THEN maze_str \o <<"_", " ">>
                                  ELSE maze_str \o <<cell, " ">>)

\* The outer loop of __str__ from row row on.
RECURSIVE str_rows(_, _, _)
str_rows(cells, row, maze_str) ==
    IF row >= num_rows THEN maze_str
    ELSE str_rows(cells, row + 1,
                  rstrip(str_cols(cells, row, 0, maze_str)) \o <<"\n">>)

\* The value of Maze.__str__
maze_str_of(cells) == rstrip(str_rows(cells, 0, <<>>))

\* Maze.__str__: the text is the call's result; nothing else changes.
str_call ==
    /\ pc \in {"idle", "returned"}
    /\ op # "str"
    /\ result' = maze_str_of(maze_cells)
    /\ op' = "str"
    /\ UNCHANGED <<num_rows, num_cols, maze_cells, start_cell, exit_cell, stack, pc,
                   entry_cells, pushes, pops, writes>>

\* The grids an Array2D of this size can hold.
Grids == [Pos -> {EMPTY, MAZE_WALL, PATH_TOKEN, TRIED_TOKEN}]

\* A whole find_path() call with the start and the exit set, as one function:
\* the loop run from a grid and a stack to the return value and the final grid.
find_path_loop[cells \in Grids, stk \in Seq(Pos)] ==
    IF Len(stk) = 0 THEN [result |-> "False", cells |-> cells]
    ELSE LET current_cell == stk[Len(stk)]
             row == current_cell[1]
             col == current_cell[2]
             n == next_move_in(cells, row, col)
         IN  IF row = exit_cell[1] /\ col = exit_cell[2]
               THEN [result |-> "True", cells |-> cells]
             ELSE IF n # None
               THEN find_path_loop[mark_path(cells, n[1], n[2]), Append(stk, n)]
             ELSE find_path_loop[mark_tried(cells, row, col),
                                 SubSeq(stk, 1, Len(stk) - 1)]

find_path_run(cells) == find_path_loop[cells, <<start_cell>>]

\* Rendering is specified on its own: a maze between calls, built by
\* Maze(num_rows, num_cols), set_wall on any set of cells, set_start and
\* set_exit, and either not searched yet or left as find_path() leaves it;
\* then __str__.
RenderInit ==
    /\ num_rows \in 1 .. MaxRows
    /\ num_cols \in 1 .. MaxCols
    /\ start_cell \in Pos
    /\ exit_cell \in Pos
    /\ \E walls \in SUBSET Pos, searched \in BOOLEAN :
         LET built == [p \in Pos |-> IF p \in walls THEN MAZE_WALL ELSE EMPTY] IN
         maze_cells = IF searched THEN find_path_run(built).cells ELSE built
    /\ stack = <<>>
    /\ pc = "idle"
    /\ op = "config"
    /\ result = "None"
    /\ entry_cells = maze_cells
    /\ pushes = NoCounts
    /\ pops = NoCounts
    /\ writes = 0

RenderNext == str_call

RenderSpec == RenderInit /\ [][RenderNext]_vars

-----------------------------------------------------------------------------
(* Vocabulary of the properties *)

\* Two positions one step apart: up, down, left or right.
Adjacent(p, q) ==
    \/ p[1] = q[1] /\ (p[2] = q[2] + 1 \/ q[2] = p[2] + 1)
    \/ p[2] = q[2] /\ (p[1] = q[1] + 1 \/ q[1] = p[1] + 1)

\* The positions one step from a position of S that are open in cells, with S.
ReachStep(cells, S) ==
    S \cup {q \in Pos : cells[q] = EMPTY /\ \E p \in S : Adjacent(p, q)}

RECURSIVE ReachClosure(_, _)
ReachClosure(cells, S) ==
    LET T == ReachStep(cells, S) IN IF T = S THEN S ELSE ReachClosure(cells, T)

\* The positions that can be reached from s by steps whose every cell after s
\* is open in cells.
Reachable(cells, s) == ReachClosure(cells, {s})

OnlyEmptyAndWall(cells) == \A p \in Pos : cells[p] \in {EMPTY, MAZE_WALL}
NoTokens(cells) == \A p \in Pos : cells[p] \notin {PATH_TOKEN, TRIED_TOKEN}
Returned == pc = "returned"
Searching == op = "find_path" /\ pc \in {"search", "returned"}

-----------------------------------------------------------------------------
\* C1: called on a grid of open and wall cells with the start cell open,
\* find_path() returns True exactly when the exit can be reached from the
\* start through cells that were open at call time, and False otherwise.
C1_TrueIffReachable ==
    (Returned /\ OnlyEmptyAndWall(entry_cells) /\ entry_cells[start_cell] = EMPTY)
        => /\ result \in {"True", "False"}
           /\ result = "True" <=> exit_cell \in Reachable(entry_cells, start_cell)

\* C1 witness: a search that returned True after going round a wall.
C1_Witness ==
    /\ Returned /\ OnlyEmptyAndWall(entry_cells) /\ entry_cells[start_cell] = EMPTY
    /\ result = "True"
    /\ \E p \in Pos : entry_cells[p] = MAZE_WALL
    /\ Len(stack) >= 3

-----------------------------------------------------------------------------
\* C2: a cell that is a wall when find_path() is called on a maze configured
\* with set_wall/set_start/set_exit is a wall at every step of the search and
\* when it returns, also when the start or the exit lies on a wall.
C2_SearchKeepsWalls ==
    (Searching /\ NoTokens(entry_cells))
        => \A p \in Pos : entry_cells[p] = MAZE_WALL => maze_cells[p] = MAZE_WALL

-----------------------------------------------------------------------------
\* C3: a cell that is a wall before reset() is a wall after it.
C3_ResetKeepsWalls ==
    op = "reset"
        => \A p \in Pos : entry_cells[p] = MAZE_WALL => maze_cells[p] = MAZE_WALL

-----------------------------------------------------------------------------
\* The four moves as (row, col) offsets.
Up == <<-1, 0>>
Down == <<1, 0>>
Left == <<0, -1>>
Right == <<0, 1>>

Moved(p, d) == <<p[1] + d[1], p[2] + d[2]>>
OpenAt(cells, p) == p \in Pos /\ cells[p] = EMPTY

\* An iteration whose stack top is set and is not the exit.
SearchIteration ==
    /\ pc = "search"
    /\ Len(stack) > 0
    /\ Top # None /\ exit_cell # None /\ Top # exit_cell

\* The iteration pushes the first neighbour, in the given order of moves, that
\* is in bounds and open, and pushes nothing when there is none.
PushesFirstOf(order) ==
    IF \E i \in 1 .. 4 : OpenAt(maze_cells, Moved(Top, order[i]))
      THEN \E i \in 1 .. 4 :
             /\ OpenAt(maze_cells, Moved(Top, order[i]))
             /\ \A j \in 1 .. (i - 1) : ~OpenAt(maze_cells, Moved(Top, order[j]))
             /\ stack' = Append(stack, Moved(Top, order[i]))
      ELSE Len(stack') < Len(stack)

-----------------------------------------------------------------------------
StackSet == {stack[i] : i \in 1 .. Len(stack)}

\* C5: when find_path(), called on a grid without tokens, returns True, the
\* path cells are exactly the cells of the stack, which is a chain of adjacent
\* cells from the start to the exit (the start and the exit cell are path
\* cells), and every other visited cell is a tried cell.
C5_PathChainOnTrue ==
    (Returned /\ result = "True" /\ NoTokens(entry_cells))
        => /\ maze_cells[start_cell] = PATH_TOKEN
           /\ maze_cells[exit_cell] = PATH_TOKEN
           /\ \A p \in Pos : maze_cells[p] = PATH_TOKEN <=> p \in StackSet
           /\ stack[1] = start_cell
           /\ Top = exit_cell
           /\ \A i \in 1 .. (Len(stack) - 1) : Adjacent(stack[i], stack[i + 1])
           /\ \A p \in Pos : (pushes[p] > 0 /\ p \notin StackSet)
                                => maze_cells[p] = TRIED_TOKEN

-----------------------------------------------------------------------------
\* C6: when find_path(), called on a grid of open and wall cells, returns
\* False, every cell reachable from the start through open cells, the start
\* included, is a tried cell and no cell of the grid is a path cell.
C6_AllTriedOnFalse ==
    (Returned /\ result = "False" /\ OnlyEmptyAndWall(entry_cells))
        => /\ \A p \in Reachable(entry_cells, start_cell) : maze_cells[p] = TRIED_TOKEN
           /\ \A p \in Pos : maze_cells[p] # PATH_TOKEN

\* C6 witness: a failed search that had at least three cells to explore.
C6_Witness ==
    /\ Returned /\ result = "False" /\ OnlyEmptyAndWall(entry_cells)
    /\ Cardinality(Reachable(entry_cells, start_cell)) >= 3

-----------------------------------------------------------------------------
\* find_path() is one synchronous call: once entered, its loop keeps iterating
\* until it returns or raises.
find_path_iteration ==
    find_path_raise \/ find_path_exit \/ find_path_push \/ find_path_pop

FairSpec == Spec /\ WF_vars(find_path_iteration)

\* C7: find_path() terminates, and at most 2 x rows x cols of its loop
\* iterations write a cell marker.
C7_TerminatesWithinBound ==
    /\ [](Searching => writes <= 2 * num_rows * num_cols)
    /\ (pc = "search") ~> (pc # "search")

\* C7 witness: a search on a grid of more than one cell that returned after
\* 2 x rows x cols - 1 marker-writing iterations.
C7_Witness ==
    /\ Returned
    /\ num_rows * num_cols > 1
    /\ writes = 2 * num_rows * num_cols - 1

-----------------------------------------------------------------------------
\* C8: during one find_path() call every position, the start included, is
\* pushed at most once and popped at most once, and no position is on the
\* stack twice.
C8_PushedAndPoppedOnce ==
    Searching
        => /\ \A p \in Pos : pushes[p] <= 1 /\ pops[p] <= 1
           /\ \A i, j \in 1 .. Len(stack) : stack[i] = stack[j] => i = j

-----------------------------------------------------------------------------
\* C9: at every step of find_path() the stack is no deeper than the number of
\* cells that were open when find_path() was called.
C9_DepthAtMostOpenCells ==
    Searching => Len(stack) <= Cardinality({p \in Pos : entry_cells[p] = EMPTY})

-----------------------------------------------------------------------------
\* C10: every change of a cell during find_path() is open -> path or
\* path -> tried.
C10_OnlyForwardChanges ==
    [][(pc = "search")
          => \A p \in Pos :
               maze_cells'[p] # maze_cells[p]
                  => \/ maze_cells[p] = EMPTY /\ maze_cells'[p] = PATH_TOKEN
                     \/ maze_cells[p] = PATH_TOKEN /\ maze_cells'[p] = TRIED_TOKEN]_vars

-----------------------------------------------------------------------------
\* The function find_path_run agrees with the loop taken one iteration at a
\* time: at every return it gives the value returned and the grid left.
RunMatchesSteps ==
    Returned => find_path_run(entry_cells) = [result |-> result, cells |-> maze_cells]

\* C11: for a maze of walls, start and exit, find_path(); reset(); find_path()
\* gives the return value and the final grid that the first find_path() gave.
C11_SameAfterReset ==
    (Returned /\ NoTokens(entry_cells))
        => find_path_run(reset_grid(maze_cells))
             = [result |-> result, cells |-> maze_cells]

-----------------------------------------------------------------------------
Tokens == {PATH_TOKEN, TRIED_TOKEN}

\* C12: after reset(), whatever calls came before it, no cell holds a path or
\* a tried token (each such cell is open), and the start and the exit are the
\* ones set before the reset.
C12_ResetClearsTokens ==
    [][(op' = "reset")
          => /\ \A p \in Pos : maze_cells'[p] \notin Tokens
             /\ \A p \in Pos : maze_cells[p] \in Tokens => maze_cells'[p] = EMPTY
             /\ start_cell' = start_cell
             /\ exit_cell' = exit_cell]_vars

\* C12 witness: a reset() of a searched maze whose grid held a path token and
\* a tried token.
C12_Witness ==
    /\ op = "reset"
    /\ start_cell # None /\ exit_cell # None
    /\ \E p \in Pos : entry_cells[p] = PATH_TOKEN
    /\ \E p \in Pos : entry_cells[p] = TRIED_TOKEN
    /\ \A p \in Pos : maze_cells[p] \notin Tokens

-----------------------------------------------------------------------------
\* C13: reset() twice in a row leaves the grid, the start and the exit that
\* one reset() leaves: resetting the grid a reset leaves changes nothing, for
\* every grid the maze can hold.
C13_ResetIdempotent ==
    /\ [](reset_grid(reset_grid(maze_cells)) = reset_grid(maze_cells))
    /\ [][(op = "reset" /\ op' = "reset")
             => /\ maze_cells' = maze_cells
                /\ start_cell' = start_cell
                /\ exit_cell' = exit_cell]_vars

\* C13 witness: the state after a second reset() of a configured maze (the
\* grid before the call is the grid after it).
C13_Witness ==
    /\ op = "reset"
    /\ entry_cells = maze_cells
    /\ start_cell # None /\ exit_cell # None

-----------------------------------------------------------------------------
OutOfRange(row, col) ==
    row \notin 0 .. (num_rows - 1) \/ col \notin 0 .. (num_cols - 1)

\* C14: set_wall, set_start and set_exit called with a position outside the
\* grid end in an error and leave the grid, the start and the exit as they
\* were.
C14_SettersRejectOutOfRange ==
    [][(\E a \in Args :
           /\ OutOfRange(a[1], a[2])
           /\ set_wall(a[1], a[2]) \/ set_start(a[1], a[2]) \/ set_exit(a[1], a[2]))
          => /\ result' = "AssertionError"
             /\ UNCHANGED <<maze_cells, start_cell, exit_cell>>]_vars

\* C14 witness: a setter has been rejected on a maze that has a wall, a start
\* and an exit, all still in the grid.
C14_Witness ==
    /\ result = "AssertionError"
    /\ \E p \in Pos : maze_cells[p] = MAZE_WALL
    /\ start_cell \in Pos /\ exit_cell \in Pos

-----------------------------------------------------------------------------
\* C15: find_path() on a maze whose start was never set ends in an error
\* (it returns neither True nor False) and changes no cell.
C15_UnsetStartRaises ==
    /\ []((op = "find_path" /\ start_cell = None)
            => /\ result \notin {"True", "False"}
               /\ pc = "search" \/ result = "AttributeError"
               /\ maze_cells = entry_cells)
    /\ [][(pc = "search" /\ start_cell = None)
             => /\ pc' = "idle"
                /\ result' = "AttributeError"
                /\ maze_cells' = maze_cells]_vars

\* C15 witness: find_path() has raised on a maze with a wall and an exit but
\* no start.
C15_Witness ==
    /\ op = "find_path" /\ start_cell = None /\ exit_cell # None
    /\ result = "AttributeError"
    /\ \E p \in Pos : maze_cells[p] = MAZE_WALL

-----------------------------------------------------------------------------
\* The character a cell is shown as.
Marker(cell) == IF cell = EMPTY THEN "_" ELSE cell

\* A text of num_rows lines of num_cols marker characters, one space between
\* neighbouring cells, one line break between rows, nothing after the last
\* cell: line r starts at character r * 2 * num_cols + 1.
IsRenderingOf(text, cells) ==
    /\ Len(text) = num_rows * (2 * num_cols - 1) + (num_rows - 1)
    /\ \A p \in Pos :
         LET at == p[1] * 2 * num_cols + 2 * p[2] + 1 IN
         /\ text[at] = Marker(cells[p])
         /\ text[at] \in {"*", "x", "o", "_"}
         /\ p[2] < num_cols - 1 => text[at + 1] = " "
    /\ \A r \in 0 .. (num_rows - 2) : text[(r + 1) * 2 * num_cols] = "\n"

-----------------------------------------------------------------------------
\* An iteration of a find_path() call made with the start set.
Iterating == pc = "search" /\ start_cell # None

\* C17: at every iteration of find_path() (called with the start set) the
\* stack is a walk through the grid: its bottom entry is the start, every
\* entry is in bounds, and consecutive entries are one step apart.
C17_StackIsWalk ==
    Iterating
        => /\ Len(stack) >= 1
           /\ stack[1] = start_cell
           /\ \A i \in 1 .. Len(stack) : stack[i] \in Pos
           /\ \A i \in 1 .. (Len(stack) - 1) : Adjacent(stack[i], stack[i + 1])

\* C17 witness: an iteration with at least three entries on the stack after a
\* backtrack.
C17_Witness ==
    /\ Iterating
    /\ Len(stack) >= 3
    /\ \E p \in Pos : pops[p] > 0

-----------------------------------------------------------------------------
-----------------------------------------------------------------------------
Neighbours(p) == {q \in Pos : Adjacent(p, q)}

\* C19: at every step of find_path() a cell the search has marked tried has
\* no in-bounds neighbour that is open.
C19_TriedCellsHaveNoOpenNeighbour ==
    Searching
        => \A p \in Pos :
             pops[p] > 0
                => /\ maze_cells[p] = TRIED_TOKEN
                   /\ \A q \in Neighbours(p) : maze_cells[q] # EMPTY

\* C19 witness: a tried cell with a neighbour that was open when find_path()
\* was called.
C19_Witness ==
    /\ Searching
    /\ \E p \in Pos :
         /\ pops[p] > 0 /\ maze_cells[p] = TRIED_TOKEN
         /\ \E q \in Neighbours(p) : entry_cells[q] = EMPTY

====
